---- MODULE Spec2Model ----
(***************************************************************************)
(* Model of the robot arm command engine of frontend/js/robot-visualizer.js *)
(* (class RobotVisualizer): the command queue, the per-frame animate()     *)
(* callback, the setTimeout callbacks that complete and advance commands,  *)
(* and the control operations loadCommands, startExecution,                *)
(* pauseExecution, resumeExecution and stopExecution.                      *)
(*                                                                         *)
(* Numbers.  Coordinates are fixed-point integers, PosScale model units    *)
(* per world unit.  animationSpeed is kept as the numerator of a fraction  *)
(* over SpeedDenom (the source divides the command speed by 2500), and     *)
(* the product delta * animationSpeed is rounded toward zero to the        *)
(* fixed-point resolution.  NaN stands for the JavaScript values           *)
(* undefined / NaN that a missing coordinate produces.                     *)
(*                                                                         *)
(* Time.  A pending setTimeout callback is a record with the time that     *)
(* remains until it is due, in milliseconds.  AdvanceTime lets TimeStep    *)
(* milliseconds pass; it is enabled only while no callback is due, so      *)
(* callbacks run in due-time order, ties in scheduling order, each when    *)
(* at least its delay has passed.  Frames (Tick) and control calls may     *)
(* occur at any moment.                                                    *)
(*                                                                         *)
(* Specifications.  Spec: the engine under any control calls.  SpecRun:    *)
(* a single run with fair frames, callbacks and time.  SpecSnap: a single  *)
(* run observed through getState().  SpecColor: the colour utilities       *)
(* lightenColor and darkenColor applied to the colours of this.colors.     *)
(* SpecProj: project3D on a measured canvas.  SpecApi: one call of         *)
(* APIClient.request() after another.  SpecNote: the NotificationManager.  *)
(* SpecApp: processRequest and resetApplication of the app, with the       *)
(* analysis requests they leave in flight.                                 *)
(***************************************************************************)
EXTENDS Integers, Sequences, FiniteSets

\* ---------------------------------------------------------------- bounds
PosScale == 100          \* fixed-point units per world unit
TimeStep == 500          \* milliseconds that pass in one AdvanceTime step
MaxQueueLen == 2         \* longest command list given to loadCommands
MaxTimers == 2           \* most setTimeout callbacks pending at once
MaxCalls == 4            \* control calls (load, start, pause, resume, stop) in one behaviour
MaxLoads == 2            \* loadCommands calls in one behaviour
MaxSnapshots == 2        \* getState calls in one behaviour
MaxAmount == 3           \* largest amount given to lightenColor / darkenColor, in tenths
MaxShows == 7            \* NotificationManager.show() calls in one behaviour

\* ------------------------------------------------------ program constants
SpeedDenom == 2500            \* executeNextCommand: speed / 2500
DefaultSpeed == 50            \* executeNextCommand: command.speed || 50
InitialAnimationSpeed == 50   \* constructor: 0.02 = 50 / 2500
ConvergenceThreshold == 2     \* animate: distance < 2
GripperDelay == 1000          \* setTimeout(..., 1000) of the gripper commands
UnrecognizedDelay == 500      \* setTimeout(..., 500) of the default case
AdvanceDelay == 200           \* setTimeout(..., 200) of completeCurrentCommand
AmountDenom == 10             \* amounts are tenths: 0.2 is 2 / AmountDenom
ChannelMax == 255             \* lightenColor: Math.min(255, ...) and amount * 255
HexRadix == 16                \* lightenColor: parseInt(..., 16)
TrigDenom == 1000             \* cos and sin are kept in thousandths
Cos30 == 866                  \* project3D: Math.cos(Math.PI / 6), in thousandths
Sin30 == 500                  \* project3D: Math.sin(Math.PI / 6), in thousandths
ScaleNum == 3                 \* constructor: this.scale = 1.5 = ScaleNum / ScaleDenom
ScaleDenom == 2
OriginDrop == 80              \* setupCanvas: centerY = canvasHeight - 80

\* JavaScript undefined / NaN in a numeric position
NaN == -999999

Origin == [x |-> 0, y |-> 0, z |-> 0]

\* ------------------------------------------------------------- arithmetic
Sub(a, b) == IF a = NaN \/ b = NaN THEN NaN ELSE a - b

Add(a, b) == IF a = NaN \/ b = NaN THEN NaN ELSE a + b

\* d * animationSpeed, animationSpeed = s / SpeedDenom, rounded toward zero
MulSpeed(d, s) ==
    IF d = NaN THEN NaN
    ELSE IF d * s >= 0 THEN (d * s) \div SpeedDenom
         ELSE 0 - ((0 - (d * s)) \div SpeedDenom)

\* Math.sqrt(dx*dx + dy*dy + dz*dz) < 2; a comparison with NaN is false
Converged(dx, dy, dz) ==
    /\ dx # NaN /\ dy # NaN /\ dz # NaN
    /\ dx * dx + dy * dy + dz * dz
         < ConvergenceThreshold * ConvergenceThreshold * PosScale * PosScale

\* command.speed || 50 : undefined and 0 are falsy
SpeedOf(command) ==
    IF command.speed = NaN \/ command.speed = 0 THEN DefaultSpeed ELSE command.speed

\* --------------------------------------------------------------- commands
Cmd(a, px, py, pz, s) ==
    [action |-> a, x |-> px, y |-> py, z |-> pz, speed |-> s]

MoveNear == Cmd("move_to", 2 * PosScale, 0, 0, NaN)

MoveFar == Cmd("move_to", 2 * PosScale, 2 * PosScale, 0, 1250)

CloseGripper == Cmd("close_gripper", NaN, NaN, NaN, NaN)

OpenGripper == Cmd("open_gripper", NaN, NaN, NaN, NaN)

Wait == Cmd("wait", NaN, NaN, NaN, NaN)

\* a move_to entry that carries no x
MovePartial == Cmd("move_to", NaN, 0, 0, NaN)

\* a move_to entry with speed: 0
MoveStill == Cmd("move_to", 2 * PosScale, 0, 0, 0)

\* a move_to entry with speed: 5000, a rate of 2 per frame
MoveFast == Cmd("move_to", 2 * PosScale, 0, 0, 2 * SpeedDenom)

CommandPool == {MoveNear, MoveFar, CloseGripper, OpenGripper, Wait}

CommandLists ==
    UNION {[1..n -> CommandPool] : n \in 0..MaxQueueLen}

VARIABLES
    position,             \* this.position, what getState() reports
    currentPosition,      \* this.currentPosition
    targetPosition,       \* this.targetPosition
    gripperOpen,          \* this.gripperOpen
    isAnimating,          \* this.isAnimating
    isPaused,             \* this.isPaused
    animationSpeed,       \* this.animationSpeed * SpeedDenom
    commandQueue,         \* this.commandQueue
    currentCommandIndex,  \* this.currentCommandIndex (zero-based)
    timers,               \* pending setTimeout callbacks, in scheduling order
    triggered,            \* history: per command, its side effect has fired
    activated,            \* history: index of the command the last step activated, or -1
    executionCompleted,   \* history: completeExecution() has run since the last start
    notified,             \* history: the last step sent a completion notification
    stopped,              \* history: stopExecution() was the last control call
    runClean,             \* history: run started on an idle engine, no call since
    calls,                \* history: number of control calls so far
    loads,                \* history: number of loadCommands() calls so far
    loadedIdle,           \* history: loadCommands() found the engine idle, no start or resume since
    snapshots,            \* history: number of getState() calls whose result the caller then wrote to
    callerList,           \* the array the caller passed to the last loadCommands(), as the caller sees it
    color,                \* lightenColor / darkenColor: the colour argument, a string as its characters
    amount,               \* the amount argument, in tenths
    op,                   \* which colour function has been applied, "none" before
    result,               \* the string it returned, as its characters
    channels,             \* the three numbers it formatted into that string
    canvas,               \* project3D: the canvas rectangle setupCanvas() measured, in pixels
    point,                \* the world point given to project3D
    proj,                 \* the screen points project3D returned, <<>> before
    apiPc,                \* APIClient.request(): "idle", "fetching", "delaying", "resolved" or "rejected"
    attempt,              \* the loop variable attempt
    fetches,              \* history: number of fetch() calls of the current request
    outcomes,             \* history: how each fetch of the current request ended
    lastError,            \* the local lastError
    apiResult,            \* what the promise settled with, <<>> while pending
    notifications,        \* NotificationManager.notifications, as the ids of its entries
    nextId,               \* number of notifications created so far; the next one gets nextId + 1
    pending,              \* ids whose setTimeout(() => removeNotification(id)) is pending
    currentImageData,     \* the app's this.currentImageData, TRUE when an image is held
    taskInput,            \* the text of the taskInput element, as its characters
    isProcessing,         \* this.isProcessing
    analysisResult,       \* this.analysisResult, <<>> for null
    robotCommands,        \* this.robotCommands
    inflight,             \* number of analyzeImage() promises that have not settled
    resetClean,           \* history: resetApplication() has run and processRequest() has not been called since
    lastCall              \* history: how the last processRequest() call began

vars == <<position, currentPosition, targetPosition, gripperOpen, isAnimating,
          isPaused, animationSpeed, commandQueue, currentCommandIndex, timers,
          triggered, activated, executionCompleted, notified, stopped, runClean, calls, loads,
          loadedIdle, snapshots, callerList, color, amount, op, result, channels,
          canvas, point, proj, apiPc, attempt, fetches, outcomes, lastError,
          apiResult, notifications, nextId, pending, currentImageData, taskInput,
          isProcessing, analysisResult, robotCommands, inflight, resetClean, lastCall>>

\* the state of the colour utilities
colorVars == <<color, amount, op, result, channels>>

\* the state of the projection
projVars == <<canvas, point, proj>>

\* the state of one APIClient.request() call
apiVars == <<apiPc, attempt, fetches, outcomes, lastError, apiResult>>

\* the state of the NotificationManager
noteVars == <<notifications, nextId, pending>>

\* the fields of MultimodalRoboticsApp that processRequest and resetApplication use
appVars == <<currentImageData, taskInput, isProcessing, analysisResult,
             robotCommands, inflight, resetClean, lastCall>>

\* everything outside the command engine, which the engine never touches
utilVars == <<colorVars, projVars, apiVars, noteVars, appVars>>

\* no colour function has been called
ColorIdle ==
    /\ color = <<>>
    /\ amount = 0
    /\ op = "none"
    /\ result = <<>>
    /\ channels = <<>>

\* no projection has been asked for
ProjIdle ==
    /\ canvas = [w |-> 0, h |-> 0]
    /\ point = [x |-> 0, y |-> 0, z |-> 0]
    /\ proj = <<>>

\* request() has not been called
ApiIdle ==
    /\ apiPc = "idle"
    /\ attempt = 0
    /\ fetches = 0
    /\ outcomes = <<>>
    /\ lastError = <<>>
    /\ apiResult = <<>>

\* the NotificationManager after its constructor
NoteIdle ==
    /\ notifications = <<>>
    /\ nextId = 0
    /\ pending = {}

\* the app after its constructor
AppIdle ==
    /\ currentImageData = FALSE
    /\ taskInput = <<>>
    /\ isProcessing = FALSE
    /\ analysisResult = <<>>
    /\ robotCommands = <<>>
    /\ inflight = 0
    /\ resetClean = FALSE
    /\ lastCall = "none"

\* nothing outside the engine, the colour utilities and the projection has run
ServicesIdle == ApiIdle /\ NoteIdle /\ AppIdle

QLen == Len(commandQueue)

Timer(k, d) == [kind |-> k, remaining |-> d, stale |-> FALSE]

\* getState()
getState ==
    [position |-> position, gripperOpen |-> gripperOpen,
     isAnimating |-> isAnimating, isPaused |-> isPaused,
     currentCommandIndex |-> currentCommandIndex, totalCommands |-> QLen]

\* the engine after its constructor
EngineInit ==
    /\ position = Origin
    /\ currentPosition = Origin
    /\ targetPosition = Origin
    /\ gripperOpen = TRUE
    /\ isAnimating = FALSE
    /\ isPaused = FALSE
    /\ animationSpeed = InitialAnimationSpeed
    /\ commandQueue = <<>>
    /\ currentCommandIndex = 0
    /\ timers = <<>>
    /\ triggered = <<>>
    /\ activated = -1
    /\ executionCompleted = FALSE
    /\ notified = FALSE
    /\ stopped = FALSE
    /\ runClean = FALSE
    /\ calls = 0
    /\ loads = 0
    /\ callerList = <<>>
    /\ snapshots = 0
    /\ loadedIdle = FALSE

Init ==
    /\ EngineInit
    /\ ColorIdle
    /\ ProjIdle
    /\ ServicesIdle

\* ------------------------------------------------------ engine operations

\* The callback that is run next: the earliest due one, the first scheduled
\* among those due at the same time.
Due(i) ==
    /\ timers[i].remaining <= 0
    /\ \A j \in 1..Len(timers) :
          \/ timers[j].remaining > timers[i].remaining
          \/ (timers[j].remaining = timers[i].remaining /\ j >= i)

RemoveAt(s, i) == SubSeq(s, 1, i - 1) \o SubSeq(s, i + 1, Len(s))

\* completeExecution(): entered from executeNextCommand when the cursor is
\* at or past the end of the queue
completeExecution ==
    /\ isAnimating' = FALSE
    /\ executionCompleted' = TRUE
    /\ notified' = TRUE

\* The switch statement with gripper commands that put the rate back to
\* the constructor's value
CommandEffectResetsRate(command, tmrs) ==
    CASE command.action = "move_to" ->
            /\ targetPosition' = [x |-> command.x, y |-> command.y, z |-> command.z]
            /\ animationSpeed' = SpeedOf(command)
            /\ timers' = tmrs
            /\ UNCHANGED gripperOpen
      [] command.action = "close_gripper" ->
            /\ gripperOpen' = FALSE
            /\ animationSpeed' = InitialAnimationSpeed
            /\ timers' = Append(tmrs, Timer("complete", GripperDelay))
            /\ UNCHANGED targetPosition
      [] command.action = "open_gripper" ->
            /\ gripperOpen' = TRUE
            /\ animationSpeed' = InitialAnimationSpeed
            /\ timers' = Append(tmrs, Timer("complete", GripperDelay))
            /\ UNCHANGED targetPosition
      [] OTHER ->
            /\ timers' = Append(tmrs, Timer("complete", UnrecognizedDelay))
            /\ UNCHANGED <<targetPosition, animationSpeed, gripperOpen>>

\* The switch statement with a move_to case that also opens the gripper
CommandEffectMoveOpens(command, tmrs) ==
    CASE command.action = "move_to" ->
            /\ targetPosition' = [x |-> command.x, y |-> command.y, z |-> command.z]
            /\ animationSpeed' = SpeedOf(command)
            /\ timers' = tmrs
            /\ gripperOpen' = TRUE
      [] command.action = "close_gripper" ->
            /\ gripperOpen' = FALSE
            /\ timers' = Append(tmrs, Timer("complete", GripperDelay))
            /\ UNCHANGED <<targetPosition, animationSpeed>>
      [] command.action = "open_gripper" ->
            /\ gripperOpen' = TRUE
            /\ timers' = Append(tmrs, Timer("complete", GripperDelay))
            /\ UNCHANGED <<targetPosition, animationSpeed>>
      [] OTHER ->
            /\ timers' = Append(tmrs, Timer("complete", UnrecognizedDelay))
            /\ UNCHANGED <<targetPosition, animationSpeed, gripperOpen>>

\* The side effect of the command at the cursor (the switch statement)
CommandEffect(command, tmrs) ==
    CASE command.action = "move_to" ->
            /\ targetPosition' = [x |-> command.x, y |-> command.y, z |-> command.z]
            /\ animationSpeed' = SpeedOf(command)
            /\ timers' = tmrs
            /\ UNCHANGED gripperOpen
      [] command.action = "close_gripper" ->
            /\ gripperOpen' = FALSE
            /\ timers' = Append(tmrs, Timer("complete", GripperDelay))
            /\ UNCHANGED <<targetPosition, animationSpeed>>
      [] command.action = "open_gripper" ->
            /\ gripperOpen' = TRUE
            /\ timers' = Append(tmrs, Timer("complete", GripperDelay))
            /\ UNCHANGED <<targetPosition, animationSpeed>>
      [] OTHER ->
            /\ timers' = Append(tmrs, Timer("complete", UnrecognizedDelay))
            /\ UNCHANGED <<targetPosition, animationSpeed, gripperOpen>>

\* executeNextCommand() without the isPaused test
executeNextCommandUnpaused(paused, idx, tmrs, anim, done) ==
    IF idx >= QLen
    THEN /\ completeExecution
         /\ timers' = tmrs
         /\ activated' = -1
         /\ UNCHANGED <<targetPosition, animationSpeed, gripperOpen, triggered>>
    ELSE /\ isAnimating' = anim
         /\ executionCompleted' = done
         /\ notified' = FALSE
         /\ triggered' = [triggered EXCEPT ![idx + 1] = TRUE]
         /\ activated' = idx
         /\ CommandEffect(commandQueue[idx + 1], tmrs)

\* executeNextCommand(), entered with isPaused = paused, isAnimating = anim,
\* currentCommandIndex = idx and the pending callbacks tmrs
executeNextCommand(paused, idx, tmrs, anim, done) ==
    IF paused \/ idx >= QLen
    THEN /\ IF idx >= QLen
            THEN completeExecution
            ELSE /\ isAnimating' = anim
                 /\ executionCompleted' = done
                 /\ notified' = FALSE
         /\ timers' = tmrs
         /\ activated' = -1
         /\ UNCHANGED <<targetPosition, animationSpeed, gripperOpen, triggered>>
    ELSE /\ isAnimating' = anim
         /\ executionCompleted' = done
         /\ notified' = FALSE
         /\ triggered' = [triggered EXCEPT ![idx + 1] = TRUE]
         /\ activated' = idx
         /\ CommandEffect(commandQueue[idx + 1], tmrs)

\* markCommandCompleted(index) that updates the display only
markCommandCompletedDisplayOnly(q, idx) == q

\* markCommandCompleted(index): the queue part
markCommandCompleted(q, idx) ==
    IF idx + 1 \in DOMAIN q THEN [q EXCEPT ![idx + 1].completed = TRUE] ELSE q

\* completeCurrentCommand() without the test of the cursor against the
\* queue length
completeCurrentCommandUnguarded(tmrs) ==
    /\ commandQueue' = markCommandCompleted(commandQueue, currentCommandIndex)
    /\ currentCommandIndex' = currentCommandIndex + 1
    /\ timers' = Append(tmrs, Timer("executeNext", AdvanceDelay))

\* completeCurrentCommand(), with the pending callbacks tmrs
completeCurrentCommand(tmrs) ==
    /\ IF currentCommandIndex < QLen
       THEN /\ commandQueue' = markCommandCompleted(commandQueue, currentCommandIndex)
            /\ currentCommandIndex' = currentCommandIndex + 1
       ELSE UNCHANGED <<commandQueue, currentCommandIndex>>
    /\ timers' = Append(tmrs, Timer("executeNext", AdvanceDelay))

\* One step of the interpolation of animate()
Interpolate(cur, tgt, s) ==
    [x |-> Add(cur.x, MulSpeed(Sub(tgt.x, cur.x), s)),
     y |-> Add(cur.y, MulSpeed(Sub(tgt.y, cur.y), s)),
     z |-> Add(cur.z, MulSpeed(Sub(tgt.z, cur.z), s))]

AtTarget(cur, tgt) ==
    Converged(Sub(tgt.x, cur.x), Sub(tgt.y, cur.y), Sub(tgt.z, cur.z))

\* animate() with the interpolation skipped while paused
TickFrozenWhilePaused ==
    /\ UNCHANGED <<calls, loads, callerList, loadedIdle, snapshots, utilVars>>
    /\ IF isAnimating /\ ~isPaused
       THEN IF AtTarget(currentPosition, targetPosition)
            THEN /\ currentPosition' = targetPosition
                 /\ completeCurrentCommand(timers)
            ELSE /\ currentPosition' =
                        Interpolate(currentPosition, targetPosition, animationSpeed)
                 /\ UNCHANGED <<commandQueue, currentCommandIndex, timers>>
       ELSE UNCHANGED <<currentPosition, commandQueue, currentCommandIndex, timers>>
    /\ position' = currentPosition'
    /\ Len(timers') <= MaxTimers
    /\ notified' = FALSE
    /\ activated' = -1
    /\ UNCHANGED <<targetPosition, gripperOpen, isAnimating, isPaused,
                   animationSpeed, triggered, executionCompleted, stopped, runClean>>

\* animate(): one frame
Tick ==
    /\ UNCHANGED <<calls, loads, callerList, loadedIdle, snapshots, utilVars>>
    /\ IF isAnimating
       THEN IF AtTarget(currentPosition, targetPosition)
            THEN /\ currentPosition' = targetPosition
                 /\ completeCurrentCommand(timers)
            ELSE /\ currentPosition' =
                        Interpolate(currentPosition, targetPosition, animationSpeed)
                 /\ UNCHANGED <<commandQueue, currentCommandIndex, timers>>
       ELSE UNCHANGED <<currentPosition, commandQueue, currentCommandIndex, timers>>
    /\ position' = currentPosition'
    /\ Len(timers') <= MaxTimers
    /\ notified' = FALSE
    /\ activated' = -1
    /\ UNCHANGED <<targetPosition, gripperOpen, isAnimating, isPaused,
                   animationSpeed, triggered, executionCompleted, stopped, runClean>>

\* loadCommands(commands) writing index and completed into the caller's
\* objects instead of copies
LoadCommandsInPlace(commands) ==
    /\ loads < MaxLoads
    /\ loads' = loads + 1
    /\ calls < MaxCalls
    /\ calls' = calls + 1
    /\ commandQueue' = [i \in 1..Len(commands) |->
            [action |-> commands[i].action, x |-> commands[i].x,
             y |-> commands[i].y, z |-> commands[i].z,
             speed |-> commands[i].speed, index |-> i - 1, completed |-> FALSE]]
    /\ callerList' = commandQueue'
    /\ currentCommandIndex' = 0
    /\ loadedIdle' = ~isAnimating
    /\ UNCHANGED <<snapshots, utilVars>>
    /\ triggered' = [i \in 1..Len(commands) |-> FALSE]
    /\ activated' = -1
    /\ notified' = FALSE
    /\ stopped' = FALSE
    /\ runClean' = FALSE
    /\ UNCHANGED <<position, currentPosition, targetPosition, gripperOpen,
                   isAnimating, isPaused, animationSpeed, timers, executionCompleted>>

\* loadCommands(commands)
LoadCommands(commands) ==
    /\ loads < MaxLoads
    /\ loads' = loads + 1
    /\ calls < MaxCalls
    /\ calls' = calls + 1
    /\ commandQueue' = [i \in 1..Len(commands) |->
            [action |-> commands[i].action, x |-> commands[i].x,
             y |-> commands[i].y, z |-> commands[i].z,
             speed |-> commands[i].speed, index |-> i - 1, completed |-> FALSE]]
    /\ callerList' = commands
    /\ currentCommandIndex' = 0
    /\ loadedIdle' = ~isAnimating
    /\ UNCHANGED <<snapshots, utilVars>>
    /\ triggered' = [i \in 1..Len(commands) |-> FALSE]
    /\ activated' = -1
    /\ notified' = FALSE
    /\ stopped' = FALSE
    /\ runClean' = FALSE
    /\ UNCHANGED <<position, currentPosition, targetPosition, gripperOpen,
                   isAnimating, isPaused, animationSpeed, timers, executionCompleted>>

\* startExecution() without the test for an empty queue
StartExecutionUnguarded ==
    /\ UNCHANGED <<loads, callerList, snapshots, utilVars>>
    /\ loadedIdle' = FALSE
    /\ calls < MaxCalls
    /\ calls' = calls + 1
    /\ isPaused' = FALSE
    /\ currentCommandIndex' = 0
    /\ executeNextCommand(FALSE, 0, timers, TRUE, FALSE)
    /\ stopped' = FALSE
    /\ runClean' = (/\ ~isAnimating
                    /\ timers = <<>>
                    /\ \A i \in DOMAIN triggered :
                          ~triggered[i] /\ ~commandQueue[i].completed)
    /\ Len(timers') <= MaxTimers
    /\ UNCHANGED <<position, currentPosition, commandQueue>>

\* startExecution() that leaves isPaused as it finds it
StartExecutionKeepsPause ==
    /\ UNCHANGED <<loads, callerList, snapshots, utilVars>>
    /\ loadedIdle' = FALSE
    /\ calls < MaxCalls
    /\ calls' = calls + 1
    /\ IF QLen = 0
       THEN /\ notified' = FALSE
            /\ activated' = -1
            /\ UNCHANGED <<isAnimating, isPaused, currentCommandIndex, targetPosition,
                           animationSpeed, gripperOpen, timers, triggered,
                           executionCompleted, stopped, runClean>>
       ELSE /\ UNCHANGED isPaused
            /\ currentCommandIndex' = 0
            /\ executeNextCommand(isPaused, 0, timers, TRUE, FALSE)
            /\ stopped' = FALSE
            /\ runClean' = (/\ ~isAnimating
                            /\ timers = <<>>
                            /\ \A i \in DOMAIN triggered :
                                  ~triggered[i] /\ ~commandQueue[i].completed)
    /\ Len(timers') <= MaxTimers
    /\ UNCHANGED <<position, currentPosition, commandQueue>>

\* startExecution()
StartExecution ==
    /\ UNCHANGED <<loads, callerList, snapshots, utilVars>>
    /\ loadedIdle' = FALSE
    /\ calls < MaxCalls
    /\ calls' = calls + 1
    /\ IF QLen = 0
       THEN /\ notified' = FALSE
            /\ activated' = -1
            /\ UNCHANGED <<isAnimating, isPaused, currentCommandIndex, targetPosition,
                           animationSpeed, gripperOpen, timers, triggered,
                           executionCompleted, stopped, runClean>>
       ELSE /\ isPaused' = FALSE
            /\ currentCommandIndex' = 0
            /\ executeNextCommand(FALSE, 0, timers, TRUE, FALSE)
            /\ stopped' = FALSE
            /\ runClean' = (/\ ~isAnimating
                            /\ timers = <<>>
                            /\ \A i \in DOMAIN triggered :
                                  ~triggered[i] /\ ~commandQueue[i].completed)
    /\ Len(timers') <= MaxTimers
    /\ UNCHANGED <<position, currentPosition, commandQueue>>

\* pauseExecution()
PauseExecution ==
    /\ UNCHANGED <<loads, callerList, loadedIdle, snapshots, utilVars>>
    /\ calls < MaxCalls
    /\ calls' = calls + 1
    /\ isPaused' = TRUE
    /\ notified' = FALSE
    /\ activated' = -1
    /\ runClean' = FALSE
    /\ UNCHANGED <<position, currentPosition, targetPosition, gripperOpen,
                   isAnimating, animationSpeed, commandQueue, currentCommandIndex,
                   timers, triggered, executionCompleted, stopped>>

\* resumeExecution() restarting the queue from its first command
ResumeExecutionRestart ==
    /\ UNCHANGED <<loads, callerList, snapshots, utilVars>>
    /\ loadedIdle' = FALSE
    /\ calls < MaxCalls
    /\ calls' = calls + 1
    /\ isPaused' = FALSE
    /\ currentCommandIndex' = 0
    /\ executeNextCommand(FALSE, 0, timers, isAnimating, executionCompleted)
    /\ Len(timers') <= MaxTimers
    /\ stopped' = FALSE
    /\ runClean' = FALSE
    /\ UNCHANGED <<position, currentPosition, commandQueue>>

\* resumeExecution()
ResumeExecution ==
    /\ UNCHANGED <<loads, callerList, snapshots, utilVars>>
    /\ loadedIdle' = FALSE
    /\ calls < MaxCalls
    /\ calls' = calls + 1
    /\ isPaused' = FALSE
    /\ executeNextCommand(FALSE, currentCommandIndex, timers, isAnimating,
                          executionCompleted)
    /\ Len(timers') <= MaxTimers
    /\ stopped' = FALSE
    /\ runClean' = FALSE
    /\ UNCHANGED <<position, currentPosition, commandQueue, currentCommandIndex>>

\* stopExecution()
StopExecution ==
    /\ UNCHANGED <<loads, callerList, loadedIdle, snapshots, utilVars>>
    /\ calls < MaxCalls
    /\ calls' = calls + 1
    /\ isAnimating' = FALSE
    /\ isPaused' = FALSE
    /\ currentPosition' = Origin
    /\ targetPosition' = Origin
    /\ gripperOpen' = TRUE
    /\ timers' = [i \in 1..Len(timers) |-> [timers[i] EXCEPT !.stale = TRUE]]
    /\ notified' = FALSE
    /\ activated' = -1
    /\ stopped' = TRUE
    /\ runClean' = FALSE
    /\ UNCHANGED <<position, animationSpeed, commandQueue, currentCommandIndex,
                   triggered, executionCompleted>>

\* A due callback () => this.completeCurrentCommand() runs
TimerComplete ==
    \E i \in 1..Len(timers) :
        /\ UNCHANGED <<calls, loads, callerList, loadedIdle, snapshots, utilVars>>
        /\ Due(i)
        /\ timers[i].kind = "complete"
        /\ completeCurrentCommand(RemoveAt(timers, i))
        /\ notified' = FALSE
        /\ activated' = -1
        /\ UNCHANGED <<position, currentPosition, targetPosition, gripperOpen,
                       isAnimating, isPaused, animationSpeed, triggered,
                       executionCompleted, stopped, runClean>>

\* A due callback () => this.executeNextCommand() runs
TimerExecuteNext ==
    \E i \in 1..Len(timers) :
        /\ UNCHANGED <<calls, loads, callerList, loadedIdle, snapshots, utilVars>>
        /\ Due(i)
        /\ timers[i].kind = "executeNext"
        /\ executeNextCommand(isPaused, currentCommandIndex, RemoveAt(timers, i),
                              isAnimating, executionCompleted)
        /\ UNCHANGED <<position, currentPosition, isPaused, commandQueue,
                       currentCommandIndex, stopped, runClean>>

\* TimeStep milliseconds pass while no callback is due
AdvanceTime ==
    /\ UNCHANGED <<calls, loads, callerList, loadedIdle, snapshots, utilVars>>
    /\ timers # <<>>
    /\ \A i \in 1..Len(timers) : timers[i].remaining > 0
    /\ timers' = [i \in 1..Len(timers) |->
                     [timers[i] EXCEPT !.remaining = @ - TimeStep]]
    /\ notified' = FALSE
    /\ activated' = -1
    /\ UNCHANGED <<position, currentPosition, targetPosition, gripperOpen,
                   isAnimating, isPaused, animationSpeed, commandQueue,
                   currentCommandIndex, triggered, executionCompleted, stopped,
                   runClean>>

Next ==
    \/ Tick
    \/ \E commands \in CommandLists : LoadCommands(commands)
    \/ StartExecution
    \/ PauseExecution
    \/ ResumeExecution
    \/ StopExecution
    \/ TimerComplete
    \/ TimerExecuteNext
    \/ AdvanceTime

Spec == Init /\ [][Next]_vars

\* ---------------------------------------------------------- a single run
\* The runs of the liveness claims: command lists that may hold an entry
\* with a missing coordinate, a zero speed or a large speed, control calls
\* only while nothing has been run yet, and frames, timer callbacks
\* and time that keep coming.
RunPool == CommandPool \cup {MovePartial, MoveStill, MoveFast}

RunLists ==
    UNION {[1..n -> RunPool] : n \in 0..MaxQueueLen}

ControlCall ==
    \/ \E commands \in RunLists : LoadCommands(commands)
    \/ StartExecution
    \/ PauseExecution
    \/ ResumeExecution
    \/ StopExecution

\* nothing has been run yet: no frame is animating, no callback is pending
\* and no command of the queue has been activated or completed
Untouched ==
    /\ ~isAnimating
    /\ timers = <<>>
    /\ \A i \in 1..QLen : ~triggered[i] /\ ~commandQueue[i].completed

NextRun ==
    \/ Tick
    \/ TimerComplete
    \/ TimerExecuteNext
    \/ AdvanceTime
    \/ (Untouched /\ ControlCall)

SpecRun ==
    /\ Init
    /\ [][NextRun]_vars
    /\ WF_vars(Tick)
    /\ WF_vars(TimerComplete)
    /\ WF_vars(TimerExecuteNext)
    /\ WF_vars(AdvanceTime)

\* ------------------------------------------------- callers of getState()
\* what a caller writes into the position of the object getState() returned
CallerWrites == {7 * PosScale}

\* getState() handing out this.position itself instead of a copy: the
\* caller's write to the returned position lands in the engine
GetStateAliased(v) ==
    /\ snapshots < MaxSnapshots
    /\ snapshots' = snapshots + 1
    /\ position' = [position EXCEPT !.x = v]
    /\ UNCHANGED <<currentPosition, targetPosition, gripperOpen, isAnimating,
                   isPaused, animationSpeed, commandQueue, currentCommandIndex,
                   timers, triggered, activated, executionCompleted, notified,
                   stopped, runClean, calls, loads, loadedIdle, callerList, utilVars>>

\* A caller takes getState() and then writes v to the x of the position of
\* the object it got, and flips its gripperOpen.  The object and its
\* position are fresh copies ({ ...this.position }), so no field of the
\* engine is written.
GetStateThenMutate(v) ==
    /\ snapshots < MaxSnapshots
    /\ snapshots' = snapshots + 1
    /\ UNCHANGED <<position, currentPosition, targetPosition, gripperOpen, isAnimating,
                   isPaused, animationSpeed, commandQueue, currentCommandIndex,
                   timers, triggered, activated, executionCompleted, notified,
                   stopped, runClean, calls, loads, loadedIdle, callerList, utilVars>>

\* a single run, observed by callers of getState()
NextSnap ==
    \/ NextRun
    \/ \E v \in CallerWrites : GetStateThenMutate(v)

SpecSnap == Init /\ [][NextSnap]_vars

\* ------------------------------------------------------ colour utilities
\* Strings are sequences of one-character strings.  An amount is a number
\* of tenths, so that amount * 255 is computed exactly.

\* the engine's fields and their history, untouched by the colour utilities
engineVars ==
    <<position, currentPosition, targetPosition, gripperOpen, isAnimating,
      isPaused, animationSpeed, commandQueue, currentCommandIndex, timers,
      triggered, activated, executionCompleted, notified, stopped, runClean,
      calls, loads, loadedIdle, snapshots, callerList>>

HexDigits ==
    <<"0", "1", "2", "3", "4", "5", "6", "7", "8", "9", "a", "b", "c", "d", "e", "f">>

IsHexDigit(c) == \E i \in 1..Len(HexDigits) : HexDigits[i] = c

HexValue(c) == (CHOOSE i \in 1..Len(HexDigits) : HexDigits[i] = c) - 1

\* floor(a / b) for b > 0
FloorDiv(a, b) == IF a >= 0 THEN a \div b ELSE 0 - ((b - 1 - a) \div b)

\* color.replace('#', ''): the first '#' is dropped
RECURSIVE RemoveHash(_)
RemoveHash(str) ==
    IF str = <<>> THEN <<>>
    ELSE IF Head(str) = "#" THEN Tail(str)
    ELSE <<Head(str)>> \o RemoveHash(Tail(str))

\* str.substr(start, len), start zero-based
Substr(str, start, len) ==
    SubSeq(str, start + 1, IF start + len < Len(str) THEN start + len ELSE Len(str))

\* the value of the longest prefix of hex digits of str, read after acc;
\* none is TRUE while no digit has been read
RECURSIVE HexPrefix(_, _, _)
HexPrefix(str, acc, none) ==
    IF str = <<>> \/ ~IsHexDigit(Head(str))
    THEN IF none THEN NaN ELSE acc
    ELSE HexPrefix(Tail(str), acc * HexRadix + HexValue(Head(str)), FALSE)

\* parseInt(str, 16): leading blanks are skipped, a sign is read, then the
\* longest prefix of hex digits; NaN when there is none
RECURSIVE parseInt16(_)
parseInt16(str) ==
    IF str = <<>> THEN NaN
    ELSE IF Head(str) = " " THEN parseInt16(Tail(str))
    ELSE IF Head(str) = "-"
         THEN IF HexPrefix(Tail(str), 0, TRUE) = NaN THEN NaN
              ELSE 0 - HexPrefix(Tail(str), 0, TRUE)
    ELSE IF Head(str) = "+" THEN HexPrefix(Tail(str), 0, TRUE)
    ELSE HexPrefix(str, 0, TRUE)

\* the decimal digits of a natural number
RECURSIVE Digits(_)
Digits(n) ==
    IF n < 10 THEN <<HexDigits[n + 1]>>
    ELSE Digits(n \div 10) \o <<HexDigits[(n % 10) + 1]>>

\* `${n}` for an integer or NaN
Decimal(n) ==
    IF n = NaN THEN <<"N", "a", "N">>
    ELSE IF n < 0 THEN <<"-">> \o Digits(0 - n)
    ELSE Digits(n)

\* Math.round(Math.min(255, channel + amount * 255)), amount = a / AmountDenom.
\* Math.min has no lower partner; Math.round(x) is floor(x + 1/2); NaN stays NaN
LightenChannel(channel, a) ==
    IF channel = NaN THEN NaN
    ELSE LET sum == channel * AmountDenom + a * ChannelMax
             capped == IF sum > ChannelMax * AmountDenom
                       THEN ChannelMax * AmountDenom ELSE sum
         IN FloorDiv(2 * capped + AmountDenom, 2 * AmountDenom)

\* parseInt(hex.substr(2k, 2), 16) for k = 0, 1, 2
ParsedChannels(str) ==
    [k \in 1..3 |-> parseInt16(Substr(RemoveHash(str), 2 * (k - 1), 2))]

\* the numbers r, g, b that lightenColor(str, a / AmountDenom) formats
lightenChannels(str, a) ==
    [k \in 1..3 |-> LightenChannel(ParsedChannels(str)[k], a)]

\* `rgb(${r}, ${g}, ${b})`
FormatRgb(c) ==
    <<"r", "g", "b", "(">> \o Decimal(c[1]) \o <<",", " ">> \o Decimal(c[2])
        \o <<",", " ">> \o Decimal(c[3]) \o <<")">>

lightenColor(str, a) == FormatRgb(lightenChannels(str, a))

darkenColor(str, a) == lightenColor(str, 0 - a)

\* colours of this.colors
Colors ==
    { <<"#", "1", "a", "1", "a", "1", "a">>,     \* background
      <<"#", "3", "3", "3", "3", "3", "3">>,     \* grid
      <<"#", "e", "5", "3", "e", "3", "e">>,     \* arm1
      <<"#", "3", "1", "8", "2", "c", "e">>,     \* arm2
      <<"#", "1", "0", "b", "9", "8", "1">>,     \* arm3
      <<"#", "4", "a", "5", "5", "6", "8">>,     \* base
      <<"#", "3", "8", "a", "1", "6", "9">>,     \* gripper.open
      <<"#", "2", "d", "3", "7", "4", "8">>,     \* workspace
      <<"#", "f", "5", "9", "e", "0", "b">> }    \* objects[3]

Amounts == 0..MaxAmount

InitColor ==
    /\ EngineInit
    /\ ProjIdle
    /\ ServicesIdle
    /\ color \in Colors
    /\ amount \in Amounts
    /\ op = "none"
    /\ result = <<>>
    /\ channels = <<>>

\* a caller evaluates lightenColor(color, amount)
Lighten ==
    /\ op = "none"
    /\ op' = "lighten"
    /\ channels' = lightenChannels(color, amount)
    /\ result' = lightenColor(color, amount)
    /\ UNCHANGED <<color, amount, engineVars, projVars, apiVars, noteVars, appVars>>

\* a caller evaluates darkenColor(color, amount)
Darken ==
    /\ op = "none"
    /\ op' = "darken"
    /\ channels' = lightenChannels(color, 0 - amount)
    /\ result' = darkenColor(color, amount)
    /\ UNCHANGED <<color, amount, engineVars, projVars, apiVars, noteVars, appVars>>

\* a caller evaluates darkenColor(lightenColor(color, amount), amount)
RoundTrip ==
    /\ op = "none"
    /\ op' = "roundtrip"
    /\ channels' = lightenChannels(lightenColor(color, amount), 0 - amount)
    /\ result' = darkenColor(lightenColor(color, amount), amount)
    /\ UNCHANGED <<color, amount, engineVars, projVars, apiVars, noteVars, appVars>>

NextColor == Lighten \/ Darken \/ RoundTrip

SpecColor == InitColor /\ [][NextColor]_vars

\* ----------------------------------------------------------- projection
\* Screen coordinates are exact fractions of a pixel, kept as integers in
\* units of 1 / ScreenUnit pixel; world coordinates are integers.
ScreenUnit == TrigDenom * ScaleDenom

\* setupCanvas(): centerX = canvasWidth / 2, centerY = canvasHeight - 80
centerX(cv) == (cv.w * ScreenUnit) \div 2

centerY(cv) == (cv.h - OriginDrop) * ScreenUnit

Abs(n) == IF n < 0 THEN 0 - n ELSE n

\* project3D with the horizontal offset taken without its sign
project3DMirrored(cv, x, y, z) ==
    [x |-> centerX(cv) + Abs(x - y) * Cos30 * ScaleNum,
     y |-> centerY(cv) - (x + y) * Sin30 * ScaleNum - z * TrigDenom * ScaleNum]

\* project3D(x, y, z) on the canvas cv
project3D(cv, x, y, z) ==
    [x |-> centerX(cv) + (x - y) * Cos30 * ScaleNum,
     y |-> centerY(cv) - (x + y) * Sin30 * ScaleNum - z * TrigDenom * ScaleNum]

CanvasSizes == {[w |-> 800, h |-> 600], [w |-> 401, h |-> 300]}

Coords == {-20, -10, 0, 10, 25}

Heights == {0, 15}

InitProj ==
    /\ EngineInit
    /\ ColorIdle
    /\ ServicesIdle
    /\ canvas \in CanvasSizes
    /\ point \in [x : Coords, y : Coords, z : Heights]
    /\ proj = <<>>

\* a caller projects the point, its ground point, the ground point shifted
\* by 10 along x, and the world origin
Project ==
    /\ proj = <<>>
    /\ proj' = [at |-> project3D(canvas, point.x, point.y, point.z),
                ground |-> project3D(canvas, point.x, point.y, 0),
                shifted |-> project3D(canvas, point.x + 10, point.y, 0),
                origin |-> project3D(canvas, 0, 0, 0)]
    /\ UNCHANGED <<canvas, point, engineVars, colorVars, apiVars, noteVars, appVars>>

NextProj == Project

SpecProj == InitProj /\ [][NextProj]_vars

\* ------------------------------------------------- APIClient.request()
retryAttempts == 3            \* constructor: this.retryAttempts = 3

\* str.includes(sub)
Includes(str, sub) ==
    \E k \in 0..(Len(str) - Len(sub)) : SubSeq(str, k + 1, k + Len(sub)) = sub

\* How one fetch() can end.  A fetch that cannot reach the server rejects
\* with a TypeError whose message the browser chooses; the abort timer
\* rejects it with an AbortError; otherwise a response arrives with a
\* status, a status text and a body that response.json() can parse or not.
NetworkMessages ==
    { <<"F", "a", "i", "l", "e", "d", " ", "t", "o", " ", "f", "e", "t", "c", "h">>,      \* Chromium
      <<"L", "o", "a", "d", " ", "f", "a", "i", "l", "e", "d">> }       \* WebKit

Statuses == {200, 404, 500, 501, 503}

\* the reason phrase; empty over HTTP/2
StatusTexts == { <<>> }

\* the error property of a parsed error body, "none" when the body has none
ErrorTexts ==
    { "none",
      <<"S", "e", "r", "v", "e", "r", " ", "b", "u", "s", "y">>,
      <<"M", "a", "x", " ", "5", "0", "0", "0", " ", "c", "h", "a", "r", "s">> }

DataValues == {"d1", "d2"}

NetworkFailure(msg) ==
    [kind |-> "network", message |-> msg, status |-> 0, statusText |-> <<>>,
     jsonOk |-> FALSE, error |-> "none", data |-> "none"]

Aborted ==
    [kind |-> "abort", message |-> <<"T", "h", "e", " ", "u", "s", "e", "r", " ", "a", "b", "o", "r", "t", "e", "d", " ", "a", " ", "r", "e", "q", "u", "e", "s", "t", ".">>, status |-> 0,
     statusText |-> <<>>, jsonOk |-> FALSE, error |-> "none", data |-> "none"]

Response(st, text, parses, err, d) ==
    [kind |-> "http", message |-> <<>>, status |-> st, statusText |-> text,
     jsonOk |-> parses, error |-> err, data |-> d]

\* response.ok
ResponseOk(st) == 200 <= st /\ st <= 299

Outcomes ==
    {NetworkFailure(m) : m \in NetworkMessages}
    \cup {Aborted}
    \cup {Response(st, t, TRUE, "none", d) :
             st \in {x \in Statuses : ResponseOk(x)}, t \in StatusTexts, d \in DataValues}
    \cup {Response(st, t, FALSE, "none", "none") :
             st \in {x \in Statuses : ResponseOk(x)}, t \in StatusTexts}
    \cup {Response(st, t, e # "none", e, "none") :
             st \in {x \in Statuses : ~ResponseOk(x)}, t \in StatusTexts, e \in ErrorTexts}

Error(nm, msg) == [kind |-> "error", name |-> nm, message |-> msg]

\* the try block returns data
Succeeds(o) == o.kind = "http" /\ ResponseOk(o.status) /\ o.jsonOk

\* the error the catch block receives when the try block throws
ErrorOf(o) ==
    IF o.kind = "network" THEN Error("TypeError", o.message)
    ELSE IF o.kind = "abort" THEN Error("AbortError", o.message)
    ELSE IF ~ResponseOk(o.status)
         THEN \* errorData.error || `HTTP ${status}: ${statusText}`
              IF o.jsonOk /\ o.error # "none" /\ o.error # <<>>
              THEN Error("Error", o.error)
              ELSE Error("Error", <<"H", "T", "T", "P", " ">> \o Decimal(o.status) \o <<":", " ">> \o o.statusText)
    ELSE \* response.json() of an ok response throws
         Error("SyntaxError", <<"U", "n", "e", "x", "p", "e", "c", "t", "e", "d", " ", "e", "n", "d", " ", "o", "f", " ", "J", "S", "O", "N", " ", "i", "n", "p", "u", "t">>)

\* shouldRetry(error)
shouldRetry(error) ==
    \/ Includes(error.message, <<"f", "e", "t", "c", "h">>)
    \/ Includes(error.message, <<"t", "i", "m", "e", "o", "u", "t">>)
    \/ Includes(error.message, <<"5", "0", "0">>)
    \/ Includes(error.message, <<"5", "0", "2">>)
    \/ Includes(error.message, <<"5", "0", "3">>)
    \/ Includes(error.message, <<"5", "0", "4">>)

\* the statement after the loop, with no throw: the promise resolves
AfterLoopResolves(err) ==
    /\ apiPc' = "resolved"
    /\ apiResult' = err

\* the statement after the loop: throw lastError
AfterLoop(err) ==
    /\ apiPc' = "rejected"
    /\ apiResult' = err

\* the head of the for loop, reached with attempt = n after count fetches
LoopHead(n, count, err) ==
    /\ attempt' = n
    /\ IF n <= retryAttempts
       THEN /\ apiPc' = "fetching"
            /\ fetches' = count + 1
            /\ apiResult' = <<>>
       ELSE /\ fetches' = count
            /\ AfterLoop(err)

\* a caller calls request(); the previous call, if any, has settled
Request ==
    /\ apiPc \in {"idle", "resolved", "rejected"}
    /\ outcomes' = <<>>
    /\ lastError' = <<>>
    /\ LoopHead(1, 0, <<>>)
    /\ UNCHANGED <<engineVars, colorVars, projVars, noteVars, appVars>>

\* the awaited fetch ends, and the loop body runs to its next await or to
\* the end of the call
FetchSettles ==
    /\ apiPc = "fetching"
    /\ \E o \in Outcomes :
          /\ outcomes' = Append(outcomes, o)
          /\ IF Succeeds(o)
             THEN /\ apiPc' = "resolved"
                  /\ apiResult' = [kind |-> "data", value |-> o.data]
                  /\ UNCHANGED lastError
             ELSE /\ lastError' = ErrorOf(o)
                  /\ IF ErrorOf(o).name = "AbortError"
                     THEN /\ apiPc' = "rejected"
                          /\ apiResult' = Error("Error", <<"R", "e", "q", "u", "e", "s", "t", " ", "t", "i", "m", "e", "o", "u", "t">>)
                     ELSE IF attempt < retryAttempts /\ shouldRetry(ErrorOf(o))
                     THEN /\ apiPc' = "delaying"
                          /\ UNCHANGED apiResult
                     ELSE AfterLoop(ErrorOf(o))
    /\ UNCHANGED <<attempt, fetches>>
    /\ UNCHANGED <<engineVars, colorVars, projVars, noteVars, appVars>>

\* delay(retryDelay * attempt) is over: continue
DelayElapses ==
    /\ apiPc = "delaying"
    /\ LoopHead(attempt + 1, fetches, lastError)
    /\ UNCHANGED <<outcomes, lastError>>
    /\ UNCHANGED <<engineVars, colorVars, projVars, noteVars, appVars>>

InitApi ==
    /\ EngineInit
    /\ ColorIdle
    /\ ProjIdle
    /\ ServicesIdle

NextApi == Request \/ FetchSettles \/ DelayElapses

SpecApi == InitApi /\ [][NextApi]_vars

\* --------------------------------------------------- NotificationManager
maxNotifications == 5         \* constructor: this.maxNotifications = 5

\* the while loop of addNotification: shift() while the list is full
RECURSIVE Evict(_)
Evict(notes) ==
    IF Len(notes) >= maxNotifications THEN Evict(Tail(notes)) ELSE notes

\* addNotification without the while loop
addNotificationNoEvict(notes, id) == Append(notes, id)

\* addNotification(notification): the list part
addNotification(notes, id) == Append(Evict(notes), id)

\* removeNotification(id): the list part
removeNotification(notes, id) ==
    IF \E i \in 1..Len(notes) : notes[i] = id
    THEN LET index == CHOOSE i \in 1..Len(notes) :
                          notes[i] = id /\ \A j \in 1..(i - 1) : notes[j] # id
         IN  SubSeq(notes, 1, index - 1) \o SubSeq(notes, index + 1, Len(notes))
    ELSE notes

\* show(type, title, message, duration); timed is duration > 0
Show(timed) ==
    /\ nextId < MaxShows
    /\ nextId' = nextId + 1
    /\ notifications' = addNotification(notifications, nextId + 1)
    /\ pending' = IF timed THEN pending \cup {nextId + 1} ELSE pending
    /\ UNCHANGED <<engineVars, colorVars, projVars, apiVars, appVars>>

\* the callback () => this.removeNotification(notification.id) of show() runs
RemovalTimeout(id) ==
    /\ id \in pending
    /\ pending' = pending \ {id}
    /\ notifications' = removeNotification(notifications, id)
    /\ UNCHANGED nextId
    /\ UNCHANGED <<engineVars, colorVars, projVars, apiVars, appVars>>

\* the close button of a listed notification is clicked
CloseClicked(id) ==
    /\ \E i \in 1..Len(notifications) : notifications[i] = id
    /\ notifications' = removeNotification(notifications, id)
    /\ UNCHANGED <<nextId, pending>>
    /\ UNCHANGED <<engineVars, colorVars, projVars, apiVars, appVars>>

InitNote ==
    /\ EngineInit
    /\ ColorIdle
    /\ ProjIdle
    /\ ServicesIdle

NextNote ==
    \/ \E timed \in BOOLEAN : Show(timed)
    \/ \E id \in 1..MaxShows : RemovalTimeout(id)
    \/ \E id \in 1..MaxShows : CloseClicked(id)

SpecNote == InitNote /\ [][NextNote]_vars

\* ------------------------------- MultimodalRoboticsApp: analysis requests
\* The app owns one RobotVisualizer and one NotificationManager; its
\* handlers call loadCommands and stopExecution on the first and show on
\* the second.  Every notification is shown with the default duration; the
\* removal callbacks are left pending here.
MinDescription == 10          \* validateInputs: taskDescription.length < 10
CommandDefaultSpeed == 50     \* loadRobotCommands: cmd.speed || 50

\* what the user can have typed into taskInput
TaskTexts ==
    { <<>>,
      <<" ", " ", " ">>,
      <<"p", "i", "c", "k", " ", "u", "p">>,
      <<" ", " ", "p", "i", "c", "k", " ", "u", "p", " ", " ">>,
      <<"p", "i", "c", "k", " ", "u", "p", " ", "t", "h", "e", " ", "r", "e", "d", " ", "c", "u", "b", "e">> }

RECURSIVE TrimLeft(_)
TrimLeft(str) ==
    IF str # <<>> /\ Head(str) = " " THEN TrimLeft(Tail(str)) ELSE str

RECURSIVE TrimRight(_)
TrimRight(str) ==
    IF str # <<>> /\ str[Len(str)] = " "
    THEN TrimRight(SubSeq(str, 1, Len(str) - 1)) ELSE str

\* str.trim()
Trim(str) == TrimRight(TrimLeft(str))

\* validateInputs(): the value it returns
validateInputs ==
    /\ currentImageData
    /\ Trim(taskInput) # <<>>
    /\ ~(Len(Trim(taskInput)) < MinDescription)

\* processRequest() that does not look at isProcessing
BusyNever == FALSE

\* the second operand of the test in processRequest()
Busy == isProcessing

\* v || d
OrElse(v, d) == IF v = NaN \/ v = 0 THEN d ELSE v

\* loadRobotCommands(): the map from the backend's commands
ToRobotCommands(commands) ==
    [i \in 1..Len(commands) |->
        Cmd(commands[i].action, OrElse(commands[i].x, 0), OrElse(commands[i].y, 0),
            OrElse(commands[i].z, 0), OrElse(commands[i].speed, CommandDefaultSpeed))]

\* what analyzeImage() can resolve with: a result with a commands array,
\* or one without
AnalysisResults ==
    { [hasCommands |-> TRUE, commands |-> <<>>],
      [hasCommands |-> TRUE, commands |-> <<CloseGripper>>],
      [hasCommands |-> TRUE, commands |-> <<MoveNear, OpenGripper>>],
      [hasCommands |-> FALSE, commands |-> <<>>] }

\* notificationManager.show(...) called n times with the default duration
ShowTimes(n) ==
    /\ nextId + n <= MaxShows
    /\ nextId' = nextId + n
    /\ notifications' =
          IF n = 1 THEN addNotification(notifications, nextId + 1)
          ELSE addNotification(addNotification(notifications, nextId + 1), nextId + 2)
    /\ pending' = pending \cup ((nextId + 1)..(nextId + n))

\* robotVisualizer.loadCommands(commands) called from the app
VisualizerLoad(commands) ==
    /\ loads' = loads + 1
    /\ calls' = calls + 1
    /\ commandQueue' = [i \in 1..Len(commands) |->
            [action |-> commands[i].action, x |-> commands[i].x,
             y |-> commands[i].y, z |-> commands[i].z,
             speed |-> commands[i].speed, index |-> i - 1, completed |-> FALSE]]
    /\ callerList' = commands
    /\ currentCommandIndex' = 0
    /\ loadedIdle' = ~isAnimating
    /\ triggered' = [i \in 1..Len(commands) |-> FALSE]
    /\ activated' = -1
    /\ notified' = FALSE
    /\ stopped' = FALSE
    /\ runClean' = FALSE
    /\ UNCHANGED <<position, currentPosition, targetPosition, gripperOpen,
                   isAnimating, isPaused, animationSpeed, timers,
                   executionCompleted, snapshots>>

\* robotVisualizer.stopExecution() followed by robotVisualizer.loadCommands([])
VisualizerStopAndClear ==
    /\ loads' = loads + 1
    /\ calls' = calls + 2
    /\ isAnimating' = FALSE
    /\ isPaused' = FALSE
    /\ currentPosition' = Origin
    /\ targetPosition' = Origin
    /\ gripperOpen' = TRUE
    /\ timers' = [i \in 1..Len(timers) |-> [timers[i] EXCEPT !.stale = TRUE]]
    /\ commandQueue' = <<>>
    /\ callerList' = <<>>
    /\ currentCommandIndex' = 0
    /\ loadedIdle' = TRUE
    /\ triggered' = <<>>
    /\ activated' = -1
    /\ notified' = FALSE
    /\ stopped' = FALSE
    /\ runClean' = FALSE
    /\ UNCHANGED <<position, animationSpeed, executionCompleted, snapshots>>

\* handleFile(file) continues after validateImage() has settled
FileValidated(ok) ==
    /\ currentImageData' = ok
    /\ ShowTimes(1)
    /\ UNCHANGED <<taskInput, isProcessing, analysisResult, robotCommands,
                   inflight, resetClean, lastCall>>
    /\ UNCHANGED <<engineVars, colorVars, projVars, apiVars>>

\* the user edits the task description
TypeTask(text) ==
    /\ taskInput' = text
    /\ UNCHANGED <<currentImageData, isProcessing, analysisResult, robotCommands,
                   inflight, resetClean, lastCall>>
    /\ UNCHANGED <<engineVars, colorVars, projVars, apiVars, noteVars>>

\* processRequest() up to its await: the button was clicked or Ctrl+Enter
\* was pressed
ProcessRequest ==
    /\ resetClean' = FALSE
    /\ UNCHANGED <<currentImageData, taskInput, colorVars, projVars, apiVars>>
    /\ IF ~validateInputs
       THEN /\ lastCall' = "invalid"
            /\ ShowTimes(1)
            /\ UNCHANGED <<isProcessing, analysisResult, robotCommands, inflight, engineVars>>
       ELSE IF Busy
       THEN /\ lastCall' = "busy"
            /\ UNCHANGED <<isProcessing, analysisResult, robotCommands, inflight,
                           engineVars, noteVars>>
       ELSE /\ lastCall' = "issued"
            /\ isProcessing' = TRUE
            /\ analysisResult' = <<>>
            /\ robotCommands' = <<>>
            /\ VisualizerLoad(<<>>)
            /\ inflight' = inflight + 1
            /\ UNCHANGED noteVars

\* processRequest() from its await to its end: analyzeImage() resolved
AnalysisResolves(res) ==
    /\ inflight > 0
    /\ inflight' = inflight - 1
    /\ analysisResult' = res
    /\ IF ~res.hasCommands
       THEN \* analysisResult.commands.map throws; the catch block runs
            UNCHANGED <<robotCommands, engineVars>>
       ELSE /\ robotCommands' = ToRobotCommands(res.commands)
            /\ VisualizerLoad(ToRobotCommands(res.commands))
    /\ ShowTimes(1)
    /\ isProcessing' = FALSE
    /\ UNCHANGED <<currentImageData, taskInput, resetClean, lastCall>>
    /\ UNCHANGED <<colorVars, projVars, apiVars>>

\* processRequest() from its await to its end: analyzeImage() rejected
AnalysisRejects ==
    /\ inflight > 0
    /\ inflight' = inflight - 1
    /\ ShowTimes(1)
    /\ isProcessing' = FALSE
    /\ UNCHANGED <<currentImageData, taskInput, analysisResult, robotCommands,
                   resetClean, lastCall>>
    /\ UNCHANGED <<engineVars, colorVars, projVars, apiVars>>

\* resetApplication()
ResetApplication ==
    /\ currentImageData' = FALSE
    /\ taskInput' = <<>>
    /\ VisualizerStopAndClear
    /\ analysisResult' = <<>>
    /\ robotCommands' = <<>>
    /\ ShowTimes(2)
    /\ resetClean' = TRUE
    /\ UNCHANGED <<isProcessing, inflight, lastCall>>
    /\ UNCHANGED <<colorVars, projVars, apiVars>>

InitApp ==
    /\ EngineInit
    /\ ColorIdle
    /\ ProjIdle
    /\ ServicesIdle

NextApp ==
    \/ \E ok \in BOOLEAN : FileValidated(ok)
    \/ \E text \in TaskTexts : TypeTask(text)
    \/ ProcessRequest
    \/ \E res \in AnalysisResults : AnalysisResolves(res)
    \/ AnalysisRejects
    \/ ResetApplication

SpecApp == InitApp /\ [][NextApp]_vars

\* ------------------------------------------------------------ properties

IsMove(i) == commandQueue[i].action = "move_to"

\* command i (one-based) is marked completed by this step
BecomesCompleted(i) ==
    /\ i \in DOMAIN commandQueue'
    /\ commandQueue'[i].completed
    /\ ~commandQueue[i].completed

\* the completed flags of the queue are left as they are
CompletedUnchanged ==
    /\ DOMAIN commandQueue' = DOMAIN commandQueue
    /\ \A i \in DOMAIN commandQueue :
          commandQueue'[i].completed = commandQueue[i].completed

\* command i has had its side effect triggered and is not marked completed
Active(i) == triggered[i] /\ ~commandQueue[i].completed

TimerStep == TimerComplete \/ TimerExecuteNext

\* C1: immediately after stopExecution() returns, getState() reports
\* position {0,0,0}, gripperOpen = true, isAnimating = false and
\* isPaused = false.
C1_StopReportsHome ==
    [][StopExecution =>
          (/\ getState.position = Origin
           /\ getState.gripperOpen
           /\ ~getState.isAnimating
           /\ ~getState.isPaused)']_vars

\* C2: after stopExecution() and until the next startExecution(),
\* resumeExecution() or loadCommands(), a timer callback scheduled before the
\* stop changes neither gripperOpen, targetPosition, currentCommandIndex nor
\* a completed flag, and sends no completion notification.
C2_StoppedTimersInert ==
    [][\A i \in 1..Len(timers) :
          (stopped /\ Due(i) /\ timers[i].stale /\ TimerStep) =>
              /\ UNCHANGED <<gripperOpen, targetPosition, currentCommandIndex>>
              /\ CompletedUnchanged
              /\ ~notified']_vars

\* C3: in a run started by startExecution() with no other control call the
\* commands are activated in index order, each exactly once, and no command
\* is marked completed before it has been activated.
C3_ActivatedInOrderOnce ==
    [][runClean' =>
          /\ \A i \in DOMAIN commandQueue' :
                commandQueue'[i].completed => triggered'[i]
          /\ activated' # -1 =>
                /\ ~triggered[activated' + 1]
                /\ \A j \in 1..activated' : triggered[j]]_vars

\* C4: in every reachable state at most one command is active, and that
\* command is commandQueue[currentCommandIndex].
C4_OneActiveAtCursor ==
    \A i \in DOMAIN commandQueue : Active(i) => i = currentCommandIndex + 1

\* C5: a close_gripper, open_gripper or unrecognized command is marked
\* completed only by a settle timer callback, never by the convergence
\* check of animate().
C5_TimedCommandsCompleteByTimer ==
    [][\A i \in DOMAIN commandQueue :
          (~IsMove(i) /\ BecomesCompleted(i)) => (TimerComplete /\ ~Tick)]_vars

\* C6: a move_to command is marked completed only on a tick in which it is
\* the active command and currentPosition is within distance 2 of the
\* command's own target; never by a timer callback.  Stated for the runs
\* with no control call after startExecution().
C6_MoveCompletesOnConvergence ==
    [][\A i \in DOMAIN commandQueue :
          (runClean' /\ IsMove(i) /\ BecomesCompleted(i)) =>
              /\ Tick
              /\ Active(i)
              /\ i = currentCommandIndex + 1
              /\ AtTarget(currentPosition,
                          [x |-> commandQueue[i].x, y |-> commandQueue[i].y,
                           z |-> commandQueue[i].z])]_vars

\* C7: in a run that reaches the end of the queue without stopExecution(),
\* completeExecution() executes once only: no completion notification is
\* sent when one has already been sent in this run.  Stated for the runs
\* with no control call after startExecution().
C7_CompletesOnce ==
    [][(runClean' /\ notified') => ~executionCompleted]_vars

\* C8: isAnimating = false with isPaused = true is unreachable.
C8_NoPausedIdle == ~(~isAnimating /\ isPaused)

\* C9: pauseExecution() called while isAnimating is false leaves isPaused,
\* isAnimating, currentCommandIndex, the pose and the gripper unchanged.
C9_PauseIdleNoOp ==
    [][(PauseExecution /\ ~isAnimating) =>
          UNCHANGED <<isPaused, isAnimating, currentCommandIndex, position,
                      currentPosition, targetPosition, gripperOpen>>]_vars

\* C10: while isPaused is true no tick and no timer callback changes
\* currentCommandIndex or marks a command completed.
C10_PauseHaltsAdvancement ==
    [][(isPaused /\ (Tick \/ TimerStep)) =>
          (UNCHANGED currentCommandIndex /\ CompletedUnchanged)]_vars

\* C11: resumeExecution() never re-triggers a command whose side effect has
\* already fired: a resume of a paused run applies no side effect, and
\* schedules no settle timer, for a command that was activated before.
C11_ResumeTriggersOnce ==
    [][(ResumeExecution /\ isPaused /\ isAnimating /\ activated' # -1) =>
          ~triggered[activated' + 1]]_vars

\* the pending settle callbacks () => this.completeCurrentCommand()
SettleTimers(t) == {i \in 1..Len(t) : t[i].kind = "complete"}

\* C12: while isPaused is true executeNextCommand() triggers no command side
\* effect (targetPosition, animationSpeed and gripperOpen stay as they are
\* and no settle timer is scheduled), and a command is activated only by
\* resumeExecution() or startExecution().
C12_PausedTriggersNothing ==
    [][isPaused =>
          /\ TimerExecuteNext =>
                /\ UNCHANGED <<targetPosition, animationSpeed, gripperOpen, triggered>>
                /\ Cardinality(SettleTimers(timers')) <= Cardinality(SettleTimers(timers))
          /\ activated' # -1 => (ResumeExecution \/ StartExecution)]_vars

\* a paused run whose cursor stands at a command that the executeNextCommand()
\* callback of the previous completion left untouched
C12_Witness ==
    /\ isPaused /\ isAnimating
    /\ timers = <<>>
    /\ currentCommandIndex > 0 /\ currentCommandIndex < QLen
    /\ ~triggered[currentCommandIndex + 1]

\* C13: after startExecution() on a non-empty queue, with no further control
\* call and with frames and timer callbacks that keep coming, the engine
\* eventually reaches isAnimating = false with currentCommandIndex at the
\* queue length.
C13_RunTerminates ==
    runClean ~> (~isAnimating /\ currentCommandIndex = QLen)

\* the target a move_to entry names
TargetOf(command) == [x |-> command.x, y |-> command.y, z |-> command.z]

\* C14: in a run that is not stopped, every move_to command that is
\* activated (here: one that carries all three coordinates and a speed
\* below 5000, activated at a well-defined position) is followed, after
\* enough frames, by currentPosition snapped to exactly its target.
C14_MoveConverges ==
    \A i \in 0..(MaxQueueLen - 1) :
        (/\ runClean
         /\ activated = i
         /\ i < QLen
         /\ IsMove(i + 1)
         /\ NaN \notin {commandQueue[i + 1].x, commandQueue[i + 1].y,
                        commandQueue[i + 1].z}
         /\ SpeedOf(commandQueue[i + 1]) < 2 * SpeedDenom
         /\ NaN \notin {currentPosition.x, currentPosition.y, currentPosition.z})
            ~> (i < QLen /\ currentPosition = TargetOf(commandQueue[i + 1]))

\* the one-based indexes of the queue entries with the given action tags
EntriesOf(actions) == {i \in 1..QLen : commandQueue[i].action \in actions}

\* the last entry among those indexes (a non-empty set)
LastOf(entries) == CHOOSE i \in entries : \A j \in entries : j <= i

\* a run started on an idle engine has gone through completeExecution()
\* with no control call in between
FullyExecuted == runClean /\ executionCompleted

\* C15: when a run has fully executed, gripperOpen is the state set by the
\* last gripper command of the queue: true for open_gripper, false for
\* close_gripper.
C15_FinalGripper ==
    (FullyExecuted /\ EntriesOf({"close_gripper", "open_gripper"}) # {}) =>
        (gripperOpen <=>
           commandQueue[LastOf(EntriesOf({"close_gripper", "open_gripper"}))].action
               = "open_gripper")

\* C16: when a run has fully executed, the reported position is the target
\* of the last move_to command of the queue.
C16_FinalPosition ==
    (FullyExecuted /\ EntriesOf({"move_to"}) # {}) =>
        getState.position = TargetOf(commandQueue[LastOf(EntriesOf({"move_to"}))])

\* C17: stopExecution() resets currentCommandIndex to 0, as loadCommands()
\* does.
C17_StopResetsIndex ==
    [][StopExecution => currentCommandIndex' = 0]_vars

\* C18: currentCommandIndex never decreases except by loadCommands(),
\* stopExecution() or startExecution(): every frame, timer callback,
\* pauseExecution() and resumeExecution() leaves it equal or larger.
C18_IndexMonotonic ==
    [][\/ currentCommandIndex' >= currentCommandIndex
       \/ \E commands \in CommandLists : LoadCommands(commands)
       \/ StartExecution
       \/ StopExecution]_vars

\* a run paused after its cursor has advanced past two commands
C18_Witness ==
    /\ isAnimating /\ isPaused
    /\ currentCommandIndex > 1
    /\ ~stopped

\* C19: startExecution() on an empty queue is a no-op: it changes no engine
\* state (isAnimating, isPaused, currentCommandIndex, pose, gripper,
\* animationSpeed), activates nothing and schedules no timer.
C19_StartEmptyNoOp ==
    [][(StartExecution /\ QLen = 0) =>
          /\ UNCHANGED <<isAnimating, isPaused, currentCommandIndex, position,
                         currentPosition, targetPosition, gripperOpen,
                         animationSpeed, commandQueue, timers, triggered,
                         executionCompleted>>
          /\ getState' = getState
          /\ activated' = -1]_vars

\* the one control call made so far found the queue empty and was neither
\* pauseExecution(), stopExecution(), resumeExecution() nor loadCommands()
C19_Witness ==
    /\ QLen = 0
    /\ calls = 1 /\ loads = 0
    /\ ~isPaused /\ ~stopped /\ ~executionCompleted

\* the side effect of a command has been applied by this step
EffectApplied(command) ==
    CASE command.action = "move_to" ->
            /\ targetPosition' = TargetOf(command)
            /\ animationSpeed' = SpeedOf(command)
      [] command.action = "close_gripper" ->
            /\ ~gripperOpen'
            /\ Cardinality(SettleTimers(timers')) = Cardinality(SettleTimers(timers)) + 1
      [] command.action = "open_gripper" ->
            /\ gripperOpen'
            /\ Cardinality(SettleTimers(timers')) = Cardinality(SettleTimers(timers)) + 1
      [] OTHER ->
            Cardinality(SettleTimers(timers')) = Cardinality(SettleTimers(timers)) + 1

\* C20: startExecution() on a non-empty queue, from any prior state, sets
\* isAnimating, clears isPaused, sets currentCommandIndex to 0 and activates
\* command 0, applying its side effect, before it returns.
C20_StartActivatesFirst ==
    [][(StartExecution /\ QLen > 0) =>
          /\ isAnimating' /\ ~isPaused'
          /\ currentCommandIndex' = 0
          /\ getState'.isAnimating /\ ~getState'.isPaused
          /\ getState'.currentCommandIndex = 0
          /\ activated' = 0 /\ triggered'[1]
          /\ EffectApplied(commandQueue[1])]_vars

\* a run restarted by startExecution() after its first command had been
\* completed: load, start, start are the three calls made
C20_Witness ==
    /\ QLen > 0
    /\ calls = 3 /\ loads = 1
    /\ activated = 0
    /\ commandQueue[1].completed
    /\ isAnimating /\ ~isPaused /\ currentCommandIndex = 0

\* C21: after loadCommands(list) the queue holds exactly the entries of list
\* in the same order, entry i with index = i and completed = false, nothing
\* of the previous queue remains, currentCommandIndex is 0, and the caller's
\* list objects are as the caller passed them.
C21_LoadReplacesQueue ==
    [][\A commands \in CommandLists :
          LoadCommands(commands) =>
              /\ Len(commandQueue') = Len(commands)
              /\ \A i \in 1..Len(commands) :
                    /\ \A f \in DOMAIN commands[i] :
                          commandQueue'[i][f] = commands[i][f]
                    /\ DOMAIN commandQueue'[i] =
                          DOMAIN commands[i] \cup {"index", "completed"}
                    /\ commandQueue'[i].index = i - 1
                    /\ ~commandQueue'[i].completed
              /\ currentCommandIndex' = 0
              /\ getState'.totalCommands = Len(commands)
              /\ callerList' = commands]_vars

\* a second loadCommands() has replaced the queue of a run in progress by a
\* shorter, untouched one
C21_Witness ==
    /\ loads = 2
    /\ isAnimating
    /\ QLen = 1 /\ callerList = <<Wait>>
    /\ currentCommandIndex = 0
    /\ ~triggered[1] /\ ~commandQueue[1].completed

\* C22: loadCommands() does not start execution.  After a loadCommands()
\* that found isAnimating false, and until startExecution() or
\* resumeExecution() is called, isAnimating stays false, currentCommandIndex
\* stays 0, every command stays completed = false and no command side effect
\* is applied, whatever frames and earlier-scheduled callbacks occur.
C22_LoadDoesNotStart ==
    loadedIdle =>
        /\ ~isAnimating
        /\ currentCommandIndex = 0
        /\ \A i \in 1..QLen : ~commandQueue[i].completed /\ ~triggered[i]

\* a missing coordinate read as 0
OrZero(v) == IF v = NaN THEN 0 ELSE v

\* C23: a move_to entry with a missing x, y or z is executed as if that
\* coordinate were 0, and a missing speed as if it were 50: activating it
\* sets the target to the defaulted coordinates and the rate to 50 / 2500.
C23_MissingFieldsDefault ==
    [][\A i \in 1..QLen :
          (activated' = i - 1 /\ IsMove(i) /\ commandQueue' = commandQueue) =>
              /\ targetPosition' = [x |-> OrZero(commandQueue[i].x),
                                    y |-> OrZero(commandQueue[i].y),
                                    z |-> OrZero(commandQueue[i].z)]
              /\ commandQueue[i].speed = NaN => animationSpeed' = DefaultSpeed]_vars

\* this step activates queue entry i (one-based) of an unchanged queue
Activates(i) == activated' = i - 1 /\ commandQueue' = commandQueue

\* C24 as stated: activating a move_to sets targetPosition to the command's
\* (x,y,z) and animationSpeed to speed / 2500, with speed 50 only when the
\* speed is absent; a gripper or unrecognized command leaves both unchanged.
C24_RateIsSpeedOrDefault ==
    [][\A i \in 1..QLen :
          Activates(i) =>
              IF IsMove(i)
              THEN /\ targetPosition' = TargetOf(commandQueue[i])
                   /\ animationSpeed' =
                         IF commandQueue[i].speed = NaN THEN DefaultSpeed
                         ELSE commandQueue[i].speed
              ELSE UNCHANGED <<targetPosition, animationSpeed>>]_vars

\* C24, amended: activating a move_to sets targetPosition to the command's
\* (x,y,z) and animationSpeed to speed / 2500, with speed 50 when the speed
\* is absent or 0; a gripper or unrecognized command leaves both unchanged,
\* so the rate persists until the next move_to.
C24_RateIsTruthySpeedOrDefault ==
    [][\A i \in 1..QLen :
          Activates(i) =>
              IF IsMove(i)
              THEN /\ targetPosition' = TargetOf(commandQueue[i])
                   /\ animationSpeed' =
                         IF commandQueue[i].speed \in {NaN, 0} THEN DefaultSpeed
                         ELSE commandQueue[i].speed
              ELSE UNCHANGED <<targetPosition, animationSpeed>>]_vars

\* a gripper command has just been activated after a move_to with its own
\* speed, and the rate of that move_to is still in force
C24_Witness ==
    /\ QLen = 2
    /\ activated = 1
    /\ commandQueue[1].action = "move_to"
    /\ commandQueue[2].action \in {"close_gripper", "open_gripper"}
    /\ animationSpeed = commandQueue[1].speed
    /\ animationSpeed # InitialAnimationSpeed
    /\ targetPosition = TargetOf(commandQueue[1])

\* C25: gripperOpen changes only when a close_gripper command (to false) or
\* an open_gripper command (to true) is activated, or when stopExecution()
\* resets it to true; frames, move_to and unrecognized commands,
\* loadCommands(), pauseExecution() and a resume of a non-gripper command
\* leave it unchanged.
C25_GripperChangesOnlyByGripperCommands ==
    [][gripperOpen' # gripperOpen =>
          \/ StopExecution /\ gripperOpen'
          \/ \E i \in 1..QLen :
                /\ Activates(i)
                /\ \/ commandQueue[i].action = "close_gripper" /\ ~gripperOpen'
                   \/ commandQueue[i].action = "open_gripper" /\ gripperOpen']_vars

\* a move_to has just been activated with the gripper closed by the command
\* before it
C25_Witness ==
    /\ QLen = 2
    /\ commandQueue[1].action = "close_gripper"
    /\ commandQueue[2].action = "move_to"
    /\ activated = 1
    /\ ~gripperOpen

\* dx*dx + dy*dy + dz*dz of animate(), between two well-defined positions
DistSq(a, b) ==
    (b.x - a.x) * (b.x - a.x) + (b.y - a.y) * (b.y - a.y) + (b.z - a.z) * (b.z - a.z)

\* no coordinate of the position is NaN
Defined(p) == NaN \notin {p.x, p.y, p.z}

\* C26: while animating, with the target unchanged, every frame before the
\* snap strictly decreases the distance from currentPosition to
\* targetPosition, whatever speed the move_to command carried.
C26_DistanceDecreases ==
    [][(/\ Tick
        /\ isAnimating
        /\ Defined(currentPosition) /\ Defined(targetPosition)
        /\ ~AtTarget(currentPosition, targetPosition))
          => DistSq(currentPosition', targetPosition)
               < DistSq(currentPosition, targetPosition)]_vars

\* C27: while isAnimating and isPaused are both true, every frame still
\* moves currentPosition toward targetPosition: pausing does not freeze the
\* positional interpolation.  (A frame is deterministic, so "the frame
\* moves the arm closer" is "a frame that moves the arm closer is possible".)
C27_PauseDoesNotFreezeMotion ==
    (/\ isAnimating /\ isPaused
     /\ Defined(currentPosition) /\ Defined(targetPosition)
     /\ ~AtTarget(currentPosition, targetPosition))
        => ENABLED (/\ Tick
                    /\ currentPosition' =
                          Interpolate(currentPosition, targetPosition, animationSpeed)
                    /\ currentPosition' # currentPosition
                    /\ position' = currentPosition'
                    /\ DistSq(currentPosition', targetPosition)
                         < DistSq(currentPosition, targetPosition))

\* a paused run in the middle of a move_to: the arm has left the origin and
\* is farther than the threshold from its target
C27_Witness ==
    /\ isAnimating /\ isPaused
    /\ currentCommandIndex < QLen
    /\ commandQueue[currentCommandIndex + 1].action = "move_to"
    /\ triggered[currentCommandIndex + 1]
    /\ currentPosition # Origin
    /\ ~AtTarget(currentPosition, targetPosition)

Clamp(v) == IF v < 0 THEN 0 ELSE IF v > ChannelMax THEN ChannelMax ELSE v

\* the nearest integer to n / AmountDenom, halves upward
Rounded(n) == FloorDiv(2 * n + AmountDenom, 2 * AmountDenom)

\* C29: each RGB channel produced by lightenColor(c, a) and darkenColor(c, a)
\* is clamp(channel + a * 255, 0, 255), respectively
\* clamp(channel - a * 255, 0, 255), rounded, and so lies in [0, 255].
C29_ChannelsClamped ==
    op \in {"lighten", "darken"} =>
        \A k \in 1..3 :
            /\ channels[k] \in 0..ChannelMax
            /\ channels[k] =
                  Clamp(Rounded(ParsedChannels(color)[k] * AmountDenom
                                + (IF op = "lighten" THEN amount ELSE 0 - amount)
                                    * ChannelMax))

\* no channel of the colour saturates at 0 or 255 under the amount
Unsaturated(str, a) ==
    \A k \in 1..3 :
        /\ ParsedChannels(str)[k] # NaN
        /\ ParsedChannels(str)[k] * AmountDenom + a * ChannelMax < ChannelMax * AmountDenom
        /\ ParsedChannels(str)[k] * AmountDenom - a * ChannelMax > 0

\* C30: darkenColor(lightenColor(c, a), a) is the colour c within a rounding
\* tolerance of one per channel, for every hex colour c whose channels do
\* not saturate at 0 or 255 under the amount a.
C30_RoundTrip ==
    (op = "roundtrip" /\ Unsaturated(color, amount)) =>
        \A k \in 1..3 :
            /\ channels[k] # NaN
            /\ channels[k] - ParsedChannels(color)[k] \in {-1, 0, 1}

\* C31: for a fixed canvas size, project3D(x,y,0).x - project3D(x+10,y,0).x
\* is the same constant for all x and y, project3D(0,0,0) is the screen
\* origin (centerX, centerY), and the result depends only on the arguments,
\* that origin and the scale.
C31_ProjectionTranslationConsistent ==
    proj # <<>> =>
        /\ proj.ground.x - proj.shifted.x = 0 - 10 * Cos30 * ScaleNum
        /\ proj.origin = [x |-> centerX(canvas), y |-> centerY(canvas)]
        /\ proj.at.x - proj.origin.x = (point.x - point.y) * Cos30 * ScaleNum
        /\ proj.origin.y - proj.at.y =
              (point.x + point.y) * Sin30 * ScaleNum + point.z * TrigDenom * ScaleNum

\* a point left of the diagonal (x < y) above the ground has been projected
C31_Witness ==
    /\ proj # <<>>
    /\ point.x < point.y
    /\ point.z > 0
    /\ proj.at.x < proj.origin.x

\* C32: in every reachable state 0 <= currentCommandIndex <=
\* commandQueue.length, after any sequence of loadCommands (also with a
\* shorter or empty list during a run), startExecution, pause, resume, stop,
\* frames and timer callbacks.
C32_IndexWithinQueue ==
    /\ 0 <= currentCommandIndex
    /\ currentCommandIndex <= Len(commandQueue)
    /\ getState.currentCommandIndex <= getState.totalCommands

\* a shorter list was loaded during a run, and the cursor has since reached
\* the end of the new queue
C32_Witness ==
    /\ loads = 2
    /\ isAnimating
    /\ QLen = 1
    /\ currentCommandIndex = QLen
    /\ ~triggered[1]

\* C33: in every reachable state every command whose index is below
\* currentCommandIndex has completed = true; in particular, whenever
\* completeExecution() has just run, currentCommandIndex is the queue length
\* and every command of the queue is marked completed.
C33_BelowCursorCompleted ==
    /\ \A i \in 1..QLen : i <= currentCommandIndex => commandQueue[i].completed
    /\ notified =>
          /\ currentCommandIndex = QLen
          /\ \A i \in 1..QLen : commandQueue[i].completed

\* completeExecution() has just run at the end of a queue of full length
C33_Witness ==
    /\ notified
    /\ QLen = MaxQueueLen
    /\ currentCommandIndex = QLen
    /\ ~isAnimating

\* C34: in every reachable state a command with completed = true has an index
\* below currentCommandIndex: a run started by startExecution() (a re-run of
\* an executed queue and a start after stopExecution() included) begins with
\* no command marked completed.
C34_CompletedBelowCursor ==
    \A i \in 1..QLen : commandQueue[i].completed => i <= currentCommandIndex

\* the attempt that ended as o was answered with a parsed 2xx response
Answered(o) == o.kind = "http" /\ o.status \in 200..299 /\ o.jsonOk

\* C35: a single call to APIClient.request() performs at most retryAttempts
\* (3) fetch attempts, performs no further attempt after one succeeds and
\* resolves with that response's data; if no attempt succeeds it rejects
\* with an error and never resolves.
C35_BoundedAttempts ==
    /\ fetches <= retryAttempts
    /\ Len(outcomes) <= fetches
    /\ \A i \in 1..Len(outcomes) :
          Answered(outcomes[i]) =>
              /\ i = Len(outcomes)
              /\ fetches = i
              /\ apiPc = "resolved"
              /\ apiResult = [kind |-> "data", value |-> outcomes[i].data]
    /\ apiPc = "resolved" =>
          Len(outcomes) > 0 /\ Answered(outcomes[Len(outcomes)])
    /\ apiPc = "rejected" =>
          /\ \A i \in 1..Len(outcomes) : ~Answered(outcomes[i])
          /\ apiResult # <<>>
          /\ apiResult.kind = "error"

\* the third attempt of a call succeeded after two retried failures
C35_Witness ==
    /\ apiPc = "resolved"
    /\ fetches = retryAttempts
    /\ Len(outcomes) = retryAttempts

\* the attempt that ended as o failed in a way the retry policy names: the
\* network could not be reached, the request timed out, or the server
\* answered 5xx
Transient(o) ==
    \/ o.kind = "network"
    \/ o.kind = "abort"
    \/ (o.kind = "http" /\ o.status \in 500..599)

\* attempt i of the current call was followed by a retry
Retried(i) == i < Len(outcomes) \/ (i = Len(outcomes) /\ apiPc = "delaying")

\* C36: request() retries a failed attempt, while attempts remain, whenever
\* the failure is a network error, a timeout or a 5xx server response
\* (whatever error body the server sent), and does not retry other failures.
C36_RetryPolicy ==
    \A i \in 1..Len(outcomes) :
        (~Answered(outcomes[i]) /\ i < retryAttempts) =>
            (Retried(i) <=> Transient(outcomes[i]))

\* id is listed in notifications
Listed(id) == \E i \in 1..Len(notifications) : notifications[i] = id

\* C37: in every reachable state notifications holds at most
\* maxNotifications (5) entries; when show() is called at capacity the
\* oldest entry is evicted first and the new one is kept, and
\* removeNotification() of an id that is no longer present changes nothing.
C37_NotificationsBounded ==
    /\ [](Len(notifications) <= maxNotifications)
    /\ [][nextId' # nextId =>
             /\ Len(notifications') > 0
             /\ notifications'[Len(notifications')] = nextId'
             /\ Len(notifications) = maxNotifications =>
                    notifications' = Append(Tail(notifications), nextId')
             /\ Len(notifications) < maxNotifications =>
                    notifications' = Append(notifications, nextId')]_vars
    /\ [][\A id \in pending :
             (pending' = pending \ {id} /\ ~Listed(id)) =>
                 notifications' = notifications]_vars

\* show() was called at capacity: the first notification is gone, the new
\* one is last, and the timeout of the evicted one is still pending
C37_Witness ==
    /\ nextId = maxNotifications + 1
    /\ Len(notifications) = maxNotifications
    /\ notifications[1] = 2
    /\ notifications[maxNotifications] = nextId
    /\ 1 \in pending

\* C38: at most one analysis request issued by processRequest() is in
\* flight at any time: a processRequest() call made while isProcessing is
\* true issues no request, and isProcessing is false again after every
\* processRequest() has settled, whether the analysis succeeded or failed.
C38_SingleRequestInFlight ==
    /\ inflight <= 1
    /\ isProcessing => inflight = 1
    /\ inflight = 0 => ~isProcessing

\* processRequest() was called with valid inputs while a request was in flight
C38_Witness ==
    /\ lastCall = "busy"
    /\ isProcessing
    /\ inflight = 1

\* C39: after resetApplication() returns, robotCommands and the
\* visualizer's command queue stay empty until a later processRequest() is
\* started: the response of an analysis request that was in flight at
\* reset time does not load commands.
C39_ResetStaysEmpty ==
    resetClean => (robotCommands = <<>> /\ commandQueue = <<>>)

====
